---- MODULE Spec2Model ----
(***************************************************************************)
(* Model of the export utilities of packages/server/src/utils/export:      *)
(*   BaseExporter  (processData, filterData, selectFields, addMetadata)    *)
(*   CSVExporter / JSONExporter  (export)                                  *)
(*   ExportManager (registerExporter, export, exportMultiple)              *)
(*                                                                         *)
(* Two specifications share the variables:                                  *)
(*   Spec          the ExportManager with its registry, the encoders and   *)
(*                 the file system they write to;                          *)
(*   SpecPipeline  BaseExporter.processData applied to bounded inputs.     *)
(***************************************************************************)
EXTENDS Integers, Sequences, FiniteSets, TLC

VARIABLES
    exporters,  \* ExportManager.exporters: Map<ExportFormat, BaseExporter>
    lastReg,    \* per format, the exporter of the latest registerExporter call
    fs,         \* the file system the encoders see
    now,        \* the wall clock read by new Date()
    call,       \* the ExportManager call in progress and its position
    pipe        \* a processData invocation and its position

vars == <<exporters, lastReg, fs, now, call, pipe>>

-----------------------------------------------------------------------------
(* Bounds of the model.                                                     *)

MaxLen == 2     \* longest record collection handed to processData
MaxKinds == 2   \* longest list of formats handed to exportMultiple
MaxClock == 1   \* latest clock value at which a call may start

-----------------------------------------------------------------------------
(* JavaScript values.  A value is a tagged text, so that the number 1 and  *)
(* the text "1" are different values with the same printed form.           *)

V(t, s) == [t |-> t, s |-> s]
Num(s) == V("number", s)
Str(s) == V("string", s)
Null == V("null", "null")
Undefined == V("undefined", "undefined")

(* a == b, with the coercions of JavaScript's loose equality on scalars    *)
LooseEquals(a, b) ==
    \/ a = b
    \/ a.t \in {"null", "undefined"} /\ b.t \in {"null", "undefined"}
    \/ a.t \in {"number", "string"} /\ b.t \in {"number", "string"} /\ a.s = b.s

(* a === b, the comparison filterData negates                               *)
StrictEquals(a, b) == a = b

-----------------------------------------------------------------------------
(* JavaScript objects: the own enumerable properties in own-key order, as  *)
(* a sequence of [k, v].  Integer-index keys come first in ascending       *)
(* numeric order, the other keys follow in insertion order.                *)

IndexKeys == {"1", "2"}
IndexNum(k) == IF k = "1" THEN 1 ELSE 2
IsIndexKey(k) == k \in IndexKeys

Prop(k, v) == [k |-> k, v |-> v]
EmptyObj == << >>

Keys(o) == [i \in DOMAIN o |-> o[i].k]
KeySet(o) == {o[i].k : i \in DOMAIN o}

(* key in o                                                                 *)
Has(o, k) == \E i \in DOMAIN o : o[i].k = k

(* o[k]                                                                     *)
Get(o, k) ==
    IF Has(o, k) THEN o[CHOOSE i \in DOMAIN o : o[i].k = k].v ELSE Undefined

(* o[k] = v                                                                 *)
Set(o, k, v) ==
    IF Has(o, k)
    THEN [i \in DOMAIN o |-> IF o[i].k = k THEN Prop(k, v) ELSE o[i]]
    ELSE IF IsIndexKey(k)
    THEN LET pos == Cardinality({i \in DOMAIN o :
                        IsIndexKey(o[i].k) /\ IndexNum(o[i].k) < IndexNum(k)})
         IN SubSeq(o, 1, pos) \o <<Prop(k, v)>> \o SubSeq(o, pos + 1, Len(o))
    ELSE Append(o, Prop(k, v))

(* { ...a, ...b }: the properties of b assigned onto a copy of a            *)
RECURSIVE Assign(_, _, _)
Assign(a, b, i) ==
    IF i > Len(b) THEN a ELSE Assign(Set(a, b[i].k, b[i].v), b, i + 1)

Spread(a, b) == Assign(Assign(EmptyObj, a, 1), b, 1)

-----------------------------------------------------------------------------
(* ExportOptions.  present = FALSE is an absent options argument; an unset *)
(* includeMetadata and includeMetadata: false are both meta = FALSE.       *)

Options(hasFilter, filter, hasFields, fields, meta) ==
    [present |-> TRUE, hasFilter |-> hasFilter, filterOptions |-> filter,
     hasFields |-> hasFields, customFields |-> fields, includeMetadata |-> meta]

NoOptions ==
    [present |-> FALSE, hasFilter |-> FALSE, filterOptions |-> EmptyObj,
     hasFields |-> FALSE, customFields |-> << >>, includeMetadata |-> FALSE]

(* The data argument: an array of records, null, or a non-array value.     *)
ArrayOf(items) == [kind |-> "array", items |-> items]
NullData == [kind |-> "null", items |-> << >>]
NotArray == [kind |-> "object", items |-> << >>]

(* Array.isArray(data), given !data is false                                *)
IsArray(data) == data.kind = "array"

-----------------------------------------------------------------------------
(* BaseExporter                                                             *)

(* the body of the filter callback: the loop over Object.entries           *)
RECURSIVE FilterCallback(_, _, _)
FilterCallback(item, filterOptions, i) ==
    IF i > Len(filterOptions) THEN TRUE
    ELSE IF ~StrictEquals(Get(item, filterOptions[i].k), filterOptions[i].v)
    THEN FALSE
    ELSE FilterCallback(item, filterOptions, i + 1)

filterData(data, filterOptions) ==
    SelectSeq(data, LAMBDA item : FilterCallback(item, filterOptions, 1))

(* the body of the map callback: fields.forEach over a fresh result        *)
RECURSIVE SelectCallback(_, _, _, _)
SelectCallback(result, item, fields, i) ==
    IF i > Len(fields) THEN result
    ELSE SelectCallback(
            IF Has(item, fields[i])
            THEN Set(result, fields[i], Get(item, fields[i]))
            ELSE result,
            item, fields, i + 1)

(* a callback that copies item[field] without the test field in item      *)
RECURSIVE SelectCallbackNoTest(_, _, _, _)
SelectCallbackNoTest(result, item, fields, i) ==
    IF i > Len(fields) THEN result
    ELSE SelectCallbackNoTest(Set(result, fields[i], Get(item, fields[i])),
                              item, fields, i + 1)

selectFieldsNoTest(data, fields) ==
    [i \in DOMAIN data |-> SelectCallbackNoTest(EmptyObj, data[i], fields, 1)]

selectFields(data, fields) ==
    [i \in DOMAIN data |-> SelectCallback(EmptyObj, data[i], fields, 1)]

(* Date.prototype.toISOString of the clock value                            *)
IsoText == <<"T0", "T1", "T2", "T3", "T4", "T5", "T6", "T7">>
toISOString(n) == IsoText[n + 1]

ExportVersion == Str("1.0.0")

(* the literal with the spread last: the item's own fields win             *)
addMetadataSpreadLast(data) ==
    LET timestamp == Str(toISOString(now))
    IN [i \in DOMAIN data |->
            Spread(<<Prop("_exportedAt", timestamp),
                     Prop("_exportVersion", ExportVersion)>>, data[i])]

addMetadata(data) ==
    LET timestamp == Str(toISOString(now))
    IN [i \in DOMAIN data |->
            Spread(data[i], <<Prop("_exportedAt", timestamp),
                              Prop("_exportVersion", ExportVersion)>>)]

(* the three conditions of processData                                      *)
WantsFilter(options) == options.present /\ options.hasFilter
WantsFields(options) ==
    options.present /\ options.hasFields /\ Len(options.customFields) > 0
(* metadata on unless switched off                                          *)
WantsMetadataByDefault(options) == ~options.present \/ options.includeMetadata
WantsMetadata(options) == options.present /\ options.includeMetadata

AfterFilter(items, options) ==
    IF WantsFilter(options) THEN filterData(items, options.filterOptions) ELSE items
AfterSelect(items, options) ==
    IF WantsFields(options) THEN selectFields(items, options.customFields) ELSE items
AfterMetadata(items, options) ==
    IF WantsMetadata(options) THEN addMetadata(items) ELSE items

processData(data, options) ==
    IF ~IsArray(data) THEN << >>
    ELSE AfterMetadata(AfterSelect(AfterFilter(data.items, options), options), options)

-----------------------------------------------------------------------------
(* Memory.  Arrays and objects are held by reference: the heap is the      *)
(* objects and the arrays allocated so far, each at the address of its     *)
(* position, an array being the addresses of its items.  The caller's      *)
(* array is allocated first, after its records.                             *)

Heap(objs, arrs) == [objs |-> objs, arrs |-> arrs]
NoHeap == Heap(<< >>, << >>)
DataRef == 1

HeapOf(data) ==
    IF IsArray(data)
    THEN Heap(data.items, <<[i \in DOMAIN data.items |-> i]>>)
    ELSE NoHeap

(* the items of the array at ref, as they are now                           *)
ItemsAt(heap, ref) ==
    [i \in DOMAIN heap.arrs[ref] |-> heap.objs[heap.arrs[ref][i]]]

Mem(heap, ref) == [heap |-> heap, ref |-> ref]
NoMem == Mem(NoHeap, 0)

(* a new array of the given items                                           *)
NewArray(heap, refs) ==
    Mem([heap EXCEPT !.arrs = Append(@, refs)], Len(heap.arrs) + 1)

(* a map whose callback writes its result into the item it was given and   *)
(* returns that item                                                        *)
MapInPlace(heap, ref, results) ==
    NewArray([heap EXCEPT !.objs =
                 [a \in DOMAIN heap.objs |->
                     IF \E i \in DOMAIN heap.arrs[ref] : heap.arrs[ref][i] = a
                     THEN results[CHOOSE i \in DOMAIN heap.arrs[ref] :
                                     heap.arrs[ref][i] = a]
                     ELSE heap.objs[a]]],
             heap.arrs[ref])

(* Array.prototype.map on the array at ref with a callback that returns a  *)
(* new object for each item: the results are allocated, and a new array    *)
(* holds them                                                               *)
MapInto(heap, ref, results) ==
    NewArray([heap EXCEPT !.objs = @ \o results],
             [i \in DOMAIN results |-> Len(heap.objs) + i])

(* [...data]                                                                *)
CopyArray(heap, ref) == NewArray(heap, heap.arrs[ref])

(* data.filter(callback): a new array of the items the callback keeps      *)
filterDataAt(heap, ref, filterOptions) ==
    NewArray(heap, SelectSeq(heap.arrs[ref],
                             LAMBDA r : FilterCallback(heap.objs[r], filterOptions, 1)))

(* data.map(callback), the callback filling a fresh result                 *)
selectFieldsAt(heap, ref, fields) ==
    MapInto(heap, ref, selectFields(ItemsAt(heap, ref), fields))

(* data.map(callback), the callback returning a new object literal         *)
addMetadataAt(heap, ref) ==
    MapInto(heap, ref, addMetadata(ItemsAt(heap, ref)))

AfterFilterAt(mem, options) ==
    IF WantsFilter(options)
    THEN filterDataAt(mem.heap, mem.ref, options.filterOptions) ELSE mem
AfterSelectAt(mem, options) ==
    IF WantsFields(options)
    THEN selectFieldsAt(mem.heap, mem.ref, options.customFields) ELSE mem
AfterMetadataAt(mem, options) ==
    IF WantsMetadata(options) THEN addMetadataAt(mem.heap, mem.ref) ELSE mem

(* processData on the heap: the heap it leaves and the array it returns    *)
processDataAt(heap, data, options) ==
    IF ~IsArray(data) THEN NewArray(heap, << >>)
    ELSE AfterMetadataAt(
            AfterSelectAt(AfterFilterAt(CopyArray(heap, DataRef), options), options),
            options)

-----------------------------------------------------------------------------
(* Inputs: records in own-key order, collections of them, and options.     *)

RecA == <<Prop("id", Num("1")), Prop("status", Str("active"))>>
RecB == <<Prop("id", Str("1")), Prop("status", Str("inactive"))>>
RecC == <<Prop("1", Str("x")), Prop("2", Str("y")), Prop("id", Num("2"))>>
RecD == <<Prop("id", Null)>>
RecE == <<Prop("_exportedAt", Str("old")), Prop("status", Str("active")),
          Prop("id", Num("1"))>>
Records == {RecA, RecB, RecC, RecD, RecE}

RECURSIVE SeqsUpTo(_, _)
SeqsUpTo(S, n) ==
    IF n = 0 THEN {<< >>}
    ELSE LET shorter == SeqsUpTo(S, n - 1)
         IN shorter \cup {Append(q, x) : q \in {r \in shorter : Len(r) = n - 1}, x \in S}

Collections == SeqsUpTo(Records, MaxLen)
DataInputs == {ArrayOf(c) : c \in Collections} \cup {NullData, NotArray}

FilterInputs ==
    {EmptyObj,
     <<Prop("id", Num("1"))>>,
     <<Prop("id", Null)>>,
     <<Prop("status", Str("active")), Prop("id", Num("1"))>>,
     <<Prop("status", Str("archived"))>>}

FieldInputs ==
    {<< >>,
     <<"id">>,
     <<"status", "id">>,
     <<"id", "2", "1">>,
     <<"missing", "id", "missing">>,
     <<"_exportedAt", "id">>}

OptionInputs ==
    {NoOptions}
    \cup {Options(FALSE, EmptyObj, FALSE, << >>, m) : m \in BOOLEAN}
    \cup {Options(TRUE, f, FALSE, << >>, m) : f \in FilterInputs, m \in BOOLEAN}
    \cup {Options(FALSE, EmptyObj, TRUE, c, m) : c \in FieldInputs, m \in BOOLEAN}
    \cup {Options(TRUE, f, TRUE, c, m) :
            f \in FilterInputs, c \in FieldInputs, m \in BOOLEAN}

-----------------------------------------------------------------------------
(* processData, statement by statement.  mem is the heap and the array     *)
(* processedData refers to; processedData, copied, filtered and selected   *)
(* record the items of that array after each statement.                    *)

PipeIdle ==
    [stage |-> "idle", data |-> NullData, options |-> NoOptions,
     mem |-> NoMem,
     processedData |-> << >>, copied |-> << >>, filtered |-> << >>,
     selected |-> << >>]

PipeCalled(data, options) ==
    [PipeIdle EXCEPT !.stage = "called", !.data = data, !.options = options,
                     !.mem = Mem(HeapOf(data), 0)]

(* if (!data || !Array.isArray(data)) return []; processedData = [...data] *)
PdGuard ==
    /\ pipe.stage = "called"
    /\ pipe' = IF ~IsArray(pipe.data)
                THEN [pipe EXCEPT !.stage = "returned",
                                  !.mem = NewArray(pipe.mem.heap, << >>),
                                  !.processedData = << >>]
                ELSE LET out == CopyArray(pipe.mem.heap, DataRef)
                     IN [pipe EXCEPT !.stage = "copied", !.mem = out,
                                     !.processedData = ItemsAt(out.heap, out.ref),
                                     !.copied = ItemsAt(out.heap, out.ref)]
    /\ UNCHANGED <<exporters, lastReg, fs, now, call>>

PdFilter ==
    /\ pipe.stage = "copied"
    /\ LET out == AfterFilterAt(pipe.mem, pipe.options)
       IN pipe' = [pipe EXCEPT !.stage = "filtered", !.mem = out,
                               !.processedData = ItemsAt(out.heap, out.ref),
                               !.filtered = ItemsAt(out.heap, out.ref)]
    /\ UNCHANGED <<exporters, lastReg, fs, now, call>>

PdSelect ==
    /\ pipe.stage = "filtered"
    /\ LET out == AfterSelectAt(pipe.mem, pipe.options)
       IN pipe' = [pipe EXCEPT !.stage = "selected", !.mem = out,
                               !.processedData = ItemsAt(out.heap, out.ref),
                               !.selected = ItemsAt(out.heap, out.ref)]
    /\ UNCHANGED <<exporters, lastReg, fs, now, call>>

PdMetadata ==
    /\ pipe.stage = "selected"
    /\ LET out == AfterMetadataAt(pipe.mem, pipe.options)
       IN pipe' = [pipe EXCEPT !.stage = "returned", !.mem = out,
                               !.processedData = ItemsAt(out.heap, out.ref)]
    /\ UNCHANGED <<exporters, lastReg, fs, now, call>>

-----------------------------------------------------------------------------
(* Text.  A text is built from chunks, each a quote character or a run of  *)
(* characters without one, so that a replacement of quotes can be done.    *)

Q == "\""

(* the characters of the text of a string value, split at its quotes       *)
Chunks(s) ==
    CASE s = "say \"hi\"" -> <<"say ", Q, "hi", Q>>
      [] s = "" -> << >>
      [] OTHER -> <<s>>

RECURSIVE Concat(_)
Concat(chunks) ==
    IF chunks = << >> THEN ""
    ELSE IF Len(chunks) = 1 THEN chunks[1]
    ELSE LET half == Len(chunks) \div 2
         IN Concat(SubSeq(chunks, 1, half))
            \o Concat(SubSeq(chunks, half + 1, Len(chunks)))

(* Array.prototype.join(sep) on texts                                       *)
RECURSIVE JoinWith(_, _)
JoinWith(texts, sep) ==
    IF texts = << >> THEN ""
    ELSE IF Len(texts) = 1 THEN texts[1]
    ELSE texts[1] \o sep \o JoinWith(Tail(texts), sep)

RECURSIVE Flatten(_)
Flatten(seqs) == IF seqs = << >> THEN << >> ELSE Head(seqs) \o Flatten(Tail(seqs))

(* chunks.replace(/"/g, with)                                               *)
ReplaceQuotes(chunks, with) ==
    Flatten([i \in DOMAIN chunks |-> IF chunks[i] = Q THEN with ELSE <<chunks[i]>>])

(* Nested values.  A field of a record holds a mapping or a sequence by    *)
(* name; the envelope JSONExporter builds, and what a JSON text decodes    *)
(* to, hold their members themselves.                                       *)
Bool(s) == V("boolean", s)
Obj(name) == V("object", name)
Arr(name) == V("array", name)
Rec(props) == [t |-> "record", props |-> props]
List(elems) == [t |-> "list", elems |-> elems]

NestedProps(name) ==
    CASE name = "cfg" -> <<Prop("a", Num("1")), Prop("b", Str("x"))>>
      [] name = "deep" -> <<Prop("q", Str("say \"hi\"")), Prop("t", Arr("tags"))>>
      [] OTHER -> EmptyObj

NestedElems(name) ==
    CASE name = "tags" -> <<Str("a"), Num("2")>>
      [] OTHER -> << >>

PropsOf(value) == IF value.t = "record" THEN value.props ELSE NestedProps(value.s)
ElemsOf(value) == IF value.t = "list" THEN value.elems ELSE NestedElems(value.s)

IsMapping(value) == value.t \in {"object", "record"}
IsSequence(value) == value.t \in {"array", "list"}

(* typeof value                                                             *)
typeof(value) ==
    IF IsMapping(value) \/ IsSequence(value) \/ value.t = "null"
    THEN "object" ELSE value.t

(* the same value with every nested mapping and sequence holding its       *)
(* members itself                                                           *)
RECURSIVE Deep(_)
Deep(value) ==
    CASE IsMapping(value) ->
            Rec([i \in DOMAIN PropsOf(value) |->
                    Prop(PropsOf(value)[i].k, Deep(PropsOf(value)[i].v))])
      [] IsSequence(value) ->
            List([i \in DOMAIN ElemsOf(value) |-> Deep(ElemsOf(value)[i])])
      [] OTHER -> value

(* JSON.stringify(value, null, gap): the chunks of the JSON text.  With an *)
(* empty gap the text is on one line; otherwise every member is on a line  *)
(* of its own, indented by one more gap than its holder.                    *)
MaxDepth == 5

RECURSIVE Repeat(_, _)
Repeat(text, n) == IF n = 0 THEN "" ELSE text \o Repeat(text, n - 1)

Newline(gap, depth) == "\n" \o Repeat(gap, depth)

Open(bracket, gap, depth) ==
    IF gap = "" THEN <<bracket>> ELSE <<bracket, Newline(gap, depth + 1)>>
Separator(gap, depth) ==
    IF gap = "" THEN <<",">> ELSE <<",", Newline(gap, depth + 1)>>
Close(bracket, gap, depth) ==
    IF gap = "" THEN <<bracket>> ELSE <<Newline(gap, depth), bracket>>
Colon(gap) == IF gap = "" THEN <<":">> ELSE <<":", " ">>

(* quote(text): wrapped in quotes, its own quotes escaped                   *)
QuoteJSONString(text) ==
    <<Q>> \o ReplaceQuotes(Chunks(text), <<"\\", Q>>) \o <<Q>>

RECURSIVE SerializeJSONProperty(_, _, _)
RECURSIVE SerializeMembers(_, _, _, _)
RECURSIVE SerializeElems(_, _, _, _)

SerializeMembers(props, i, gap, depth) ==
    IF i > Len(props) THEN << >>
    ELSE (IF i > 1 THEN Separator(gap, depth) ELSE << >>)
         \o QuoteJSONString(props[i].k) \o Colon(gap)
         \o SerializeJSONProperty(props[i].v, gap, depth + 1)
         \o SerializeMembers(props, i + 1, gap, depth)

SerializeElems(elems, i, gap, depth) ==
    IF i > Len(elems) THEN << >>
    ELSE (IF i > 1 THEN Separator(gap, depth) ELSE << >>)
         \o (IF elems[i].t = "undefined" THEN <<"null">>
             ELSE SerializeJSONProperty(elems[i], gap, depth + 1))
         \o SerializeElems(elems, i + 1, gap, depth)

SerializeJSONProperty(value, gap, depth) ==
    CASE value.t = "string" -> QuoteJSONString(value.s)
      [] IsMapping(value) ->
            LET props == SelectSeq(PropsOf(value), LAMBDA p : p.v.t # "undefined")
            IN IF props = << >> THEN <<"{", "}">>
               ELSE Open("{", gap, depth) \o SerializeMembers(props, 1, gap, depth)
                    \o Close("}", gap, depth)
      [] IsSequence(value) ->
            IF ElemsOf(value) = << >> THEN <<"[", "]">>
            ELSE Open("[", gap, depth) \o SerializeElems(ElemsOf(value), 1, gap, depth)
                 \o Close("]", gap, depth)
      [] OTHER -> <<value.s>>

JSONstringify(value, gap) == SerializeJSONProperty(value, gap, 0)

(* JSON.parse of the chunks of a JSON text                                  *)
Whitespace == {" "} \cup {Newline("  ", d) : d \in 0 .. MaxDepth}

RECURSIVE SkipWhitespace(_, _)
SkipWhitespace(c, i) ==
    IF i <= Len(c) /\ c[i] \in Whitespace THEN SkipWhitespace(c, i + 1) ELSE i

Parsed(v, pos) == [v |-> v, pos |-> pos]

(* the characters of a string from after its opening quote                  *)
RECURSIVE ParseString(_, _, _)
ParseString(c, i, text) ==
    IF c[i] = Q THEN Parsed(text, i + 1)
    ELSE IF c[i] = "\\" THEN ParseString(c, i + 2, text \o c[i + 1])
    ELSE ParseString(c, i + 1, text \o c[i])

RECURSIVE ParseValue(_, _)
RECURSIVE ParseMembers(_, _, _)
RECURSIVE ParseElems(_, _, _)

ParseMembers(c, i, holder) ==
    LET key == ParseString(c, SkipWhitespace(c, i) + 1, "")
        colon == SkipWhitespace(c, key.pos)
        val == ParseValue(c, colon + 1)
        held == Set(holder, key.v, val.v)
        after == SkipWhitespace(c, val.pos)
    IN IF c[after] = "," THEN ParseMembers(c, after + 1, held)
       ELSE Parsed(Rec(held), after + 1)

ParseElems(c, i, holder) ==
    LET val == ParseValue(c, i)
        held == Append(holder, val.v)
        after == SkipWhitespace(c, val.pos)
    IN IF c[after] = "," THEN ParseElems(c, after + 1, held)
       ELSE Parsed(List(held), after + 1)

ParseValue(c, i) ==
    LET at == SkipWhitespace(c, i)
        inner == SkipWhitespace(c, at + 1)
    IN CASE c[at] = Q ->
              LET str == ParseString(c, at + 1, "") IN Parsed(Str(str.v), str.pos)
         [] c[at] = "{" ->
              IF c[inner] = "}" THEN Parsed(Rec(EmptyObj), inner + 1)
              ELSE ParseMembers(c, inner, EmptyObj)
         [] c[at] = "[" ->
              IF c[inner] = "]" THEN Parsed(List(<< >>), inner + 1)
              ELSE ParseElems(c, inner, << >>)
         [] c[at] = "null" -> Parsed(Null, at + 1)
         [] c[at] \in {"true", "false"} -> Parsed(Bool(c[at]), at + 1)
         [] OTHER -> Parsed(Num(c[at]), at + 1)

JSONparse(chunks) == ParseValue(chunks, 1).v

-----------------------------------------------------------------------------
(* CSVExporter.convertToCSV                                                 *)

(* a cell that wraps a string without doubling its quotes                  *)
CsvCellNoDoubling(value) ==
    IF value.t \in {"null", "undefined"} THEN ""
    ELSE IF typeof(value) = "object"
    THEN Q \o Concat(JSONstringify(value, "")) \o Q
    ELSE IF typeof(value) = "string"
    THEN Q \o Concat(Chunks(value.s)) \o Q
    ELSE value.s

(* the inner map callback: one cell from item[header]                       *)
CsvCell(value) ==
    IF value.t \in {"null", "undefined"} THEN ""
    ELSE IF typeof(value) = "object"
    THEN Q \o Concat(ReplaceQuotes(JSONstringify(value, ""), <<Q, Q>>)) \o Q
    ELSE IF typeof(value) = "string"
    THEN Q \o Concat(ReplaceQuotes(Chunks(value.s), <<Q, Q>>)) \o Q
    ELSE value.s

(* the outer map callback: one row, its cells joined by commas              *)
CsvRow(item, headers) ==
    JoinWith([h \in DOMAIN headers |-> CsvCell(Get(item, headers[h]))], ",")

convertToCSV(data, headers) ==
    LET headerRow == JoinWith(headers, ",")
        rows == [i \in DOMAIN data |-> CsvRow(data[i], headers)]
    IN JoinWith(<<headerRow>> \o rows, "\n")

-----------------------------------------------------------------------------
(* The file system: the directories and files that exist, the text of      *)
(* each file as chunks, and the directories the process may not write      *)
(* into.  A directory is the sequence of its path segments, a file path is *)
(* [dir, name].                                                             *)

Path(dir, name) == [dir |-> dir, name |-> name]

(* path.dirname(outputPath)                                                 *)
dirname(p) == p.dir

(* fs.existsSync(dir)                                                       *)
existsSync(fsys, dir) == dir \in fsys.dirs

Prefixes(dir) == {SubSeq(dir, 1, n) : n \in 0 .. Len(dir)}

DeepestExisting(fsys, dir) ==
    CHOOSE a \in Prefixes(dir) \cap fsys.dirs :
        \A b \in Prefixes(dir) \cap fsys.dirs : Len(b) <= Len(a)

(* fs.mkdirSync(dir, { recursive: true }) raises EACCES when the deepest   *)
(* existing ancestor is not writable                                        *)
MkdirThrows(fsys, dir) == DeepestExisting(fsys, dir) \in fsys.readOnly
mkdirSync(fsys, dir) == [fsys EXCEPT !.dirs = @ \cup Prefixes(dir)]

(* fs.writeFileSync(path, content, 'utf8') raises ENOENT or EACCES         *)
WriteThrows(fsys, p) == p.dir \notin fsys.dirs \/ p.dir \in fsys.readOnly
writeFileSync(fsys, p, content) ==
    [fsys EXCEPT !.files = @ \cup {p},
                 !.content = [q \in fsys.files \cup {p} |->
                                 IF q = p THEN content ELSE fsys.content[q]]]

-----------------------------------------------------------------------------
(* How a call of an async function completes.                               *)

Return(v) == [kind |-> "return", value |-> v]
Throw == [kind |-> "throw", value |-> FALSE]    \* a synchronous throw
Reject == [kind |-> "reject", value |-> FALSE]  \* a rejected promise
Pending == [kind |-> "pending", value |-> FALSE]

IsFault(c) == c.kind \in {"throw", "reject"}

-----------------------------------------------------------------------------
(* ExportManager.exporters, a Map: a function on the registered formats.   *)

Formats == {"csv", "json", "pdf", "xml"}

EmptyMap == [f \in {} |-> "undefined"]
MapGet(m, k) == IF k \in DOMAIN m THEN m[k] ELSE "undefined"
MapSet(m, k, v) == [x \in DOMAIN m \cup {k} |-> IF x = k THEN v ELSE m[x]]

(* a registry that refuses to replace a registered exporter                *)
registerExporterKeepFirst(m, format, exporter) ==
    IF format \in DOMAIN m THEN m ELSE MapSet(m, format, exporter)

(* registerExporter(format, exporter), as a function of the map            *)
registerExporter(m, format, exporter) == MapSet(m, format, exporter)

(* the constructor's three registrations                                    *)
NewExporters ==
    registerExporter(
        registerExporter(
            registerExporter(EmptyMap, "csv", "CSVExporter"),
            "json", "JSONExporter"),
        "pdf", "PDFExporter")

(* the check without its length test                                        *)
NoDataToExportNoLength(data) == ~IsArray(data)

(* if (!data || !Array.isArray(data) || data.length === 0)                  *)
NoDataToExport(data) == ~IsArray(data) \/ Len(data.items) = 0

(* the await without a try/catch around it                                  *)
AwaitNoTry(completion) == completion

(* the try/catch around await exporter.export(...)                          *)
AwaitInTry(completion) ==
    IF IsFault(completion) THEN Return(FALSE) ELSE completion

(* a catch block that logs and rethrows                                     *)
EncoderRethrow(error) == Throw

(* the catch block of CSVExporter.export and JSONExporter.export           *)
EncoderCatch(error) == Return(FALSE)

(* results[format] = await this.export(...)                                 *)
StoreResult(results, format, value) == MapSet(results, format, value)

(* a loop that breaks at the first failed export                            *)
AbortOnFailure(idx, formats, value) == IF value THEN idx + 1 ELSE Len(formats) + 1

(* the for loop goes on to the next format whatever export returned        *)
AfterIteration(idx, formats, value) == idx + 1

(* the template without its dot                                             *)
OutputPathNoDot(basePath, format) == Path(basePath.dir, basePath.name \o format)

(* const outputPath = `${basePath}.${format}`                               *)
OutputPathOf(basePath, format) ==
    Path(basePath.dir, basePath.name \o "." \o format)

-----------------------------------------------------------------------------
(* Inputs of the ExportManager calls and the initial file systems.         *)

TargetDir == <<"exports", "run">>
BasePaths == {Path(TargetDir, "out")}

NoContent == [p \in {} |-> << >>]

Fs(dirs, readOnly) ==
    [dirs |-> dirs, files |-> {}, readOnly |-> readOnly, content |-> NoContent]

FsInputs ==
    {Fs(Prefixes(TargetDir), {}),                         \* directory exists
     Fs(Prefixes(<<"exports">>), {}),                     \* to be created
     Fs(Prefixes(TargetDir), {TargetDir}),                \* not writable
     Fs(Prefixes(<<"exports">>), {<<"exports">>})}        \* cannot be created

DispatchData ==
    {NullData, NotArray, ArrayOf(<< >>), ArrayOf(<<RecA, RecB>>)}

DispatchOptions ==
    {Options(TRUE, <<Prop("status", Str("active"))>>, TRUE, <<"id">>, TRUE),
     Options(TRUE, <<Prop("status", Str("archived"))>>, FALSE, << >>, FALSE)}

(* exporters a caller registers: the README's extension point              *)
RegFormats == {"csv", "xml"}
RegExporters == {"JSONExporter", "FaultyExporter"}

MultiFormats == {"csv", "json", "xml"}
KindLists == SeqsUpTo(MultiFormats, MaxKinds)

-----------------------------------------------------------------------------
(* The call in progress.                                                    *)

NoRequest ==
    [data |-> NullData, format |-> "csv", outputPath |-> Path(<< >>, ""),
     options |-> NoOptions]

CallIdle ==
    [pc |-> "idle",
     multi |-> FALSE,           \* an exportMultiple frame is on the stack
     data |-> NullData,         \* exportMultiple's arguments
     basePath |-> Path(<< >>, ""),
     formats |-> << >>,
     options |-> NoOptions,
     idx |-> 0,                 \* position of the for loop in formats
     results |-> EmptyMap,      \* exportMultiple's results object
     request |-> NoRequest,     \* export's argument
     exporter |-> "undefined",  \* what this.exporters.get(format) gave
     heap |-> NoHeap,           \* the caller's collection and what was allocated
     processedData |-> << >>,   \* the encoder's processedData
     completion |-> Pending,    \* how exporter.export completed
     result |-> Pending,        \* how ExportManager.export completed
     ioFault |-> FALSE,         \* an fs call raised inside the encoder
     fs0 |-> Fs({}, {}),        \* the file system when the call began
     log |-> << >>]             \* export calls begun and ended, in order

-----------------------------------------------------------------------------
(* ExportManager                                                            *)

RegisterExporter ==
    /\ call.pc = "idle"
    /\ \E format \in RegFormats, exporter \in RegExporters :
          /\ exporters' = registerExporter(exporters, format, exporter)
          /\ lastReg' = [lastReg EXCEPT ![format] = exporter]
    /\ UNCHANGED <<fs, now, call, pipe>>

(* a caller invokes exportManager.export(request)                           *)
CallExport ==
    /\ call.pc = "idle"
    /\ \E data \in DispatchData, format \in Formats, basePath \in BasePaths,
          options \in DispatchOptions :
          call' = [CallIdle EXCEPT
                      !.pc = "x_validate",
                      !.request = [data |-> data, format |-> format,
                                   outputPath |-> OutputPathOf(basePath, format),
                                   options |-> options],
                      !.heap = HeapOf(data), !.fs0 = fs]
    /\ UNCHANGED <<exporters, lastReg, fs, now, pipe>>

(* a caller invokes exportManager.exportMultiple(data, basePath, formats,  *)
(* options); results starts empty                                           *)
CallExportMultiple ==
    /\ call.pc = "idle"
    /\ \E data \in DispatchData, basePath \in BasePaths, formats \in KindLists,
          options \in DispatchOptions :
          call' = [CallIdle EXCEPT
                      !.pc = "m_loop", !.multi = TRUE, !.data = data,
                      !.basePath = basePath, !.formats = formats,
                      !.options = options, !.idx = 1,
                      !.heap = HeapOf(data), !.fs0 = fs]
    /\ UNCHANGED <<exporters, lastReg, fs, now, pipe>>

(* for (const format of formats): the next iteration calls this.export,    *)
(* the end of the loop leads to return results                              *)
MultiLoop ==
    /\ call.pc = "m_loop"
    /\ IF call.idx > Len(call.formats)
       THEN call' = [call EXCEPT !.pc = "m_return"]
       ELSE LET format == call.formats[call.idx]
                outputPath == OutputPathOf(call.basePath, format)
            IN call' = [call EXCEPT
                          !.pc = "x_validate",
                          !.request = [data |-> call.data, format |-> format,
                                       outputPath |-> outputPath,
                                       options |-> call.options],
                          !.exporter = "undefined", !.processedData = << >>,
                          !.completion = Pending, !.result = Pending,
                          !.ioFault = FALSE,
                          !.log = Append(@, <<"begin", format, outputPath>>)]
    /\ UNCHANGED <<exporters, lastReg, fs, now, pipe>>

(* return results                                                           *)
MultiReturn ==
    /\ call.pc = "m_return"
    /\ call' = CallIdle
    /\ UNCHANGED <<exporters, lastReg, fs, now, pipe>>

(* export: the check of data                                                *)
ExportValidate ==
    /\ call.pc = "x_validate"
    /\ call' = IF NoDataToExport(call.request.data)
                THEN [call EXCEPT !.pc = "x_return", !.result = Return(FALSE)]
                ELSE [call EXCEPT !.pc = "x_lookup"]
    /\ UNCHANGED <<exporters, lastReg, fs, now, pipe>>

(* export: this.exporters.get(format) and the check of its result          *)
ExportLookup ==
    /\ call.pc = "x_lookup"
    /\ LET exporter == MapGet(exporters, call.request.format)
       IN call' = IF exporter = "undefined"
                  THEN [call EXCEPT !.pc = "x_return", !.result = Return(FALSE)]
                  ELSE [call EXCEPT !.pc = "x_invoke", !.exporter = exporter]
    /\ UNCHANGED <<exporters, lastReg, fs, now, pipe>>

(* export: the await of exporter.export(...) inside try, and the catch     *)
ExportAwait ==
    /\ call.pc = "x_await"
    /\ call' = [call EXCEPT !.pc = "x_return",
                            !.result = AwaitInTry(call.completion)]
    /\ UNCHANGED <<exporters, lastReg, fs, now, pipe>>

(* export completes: to its caller, or back into exportMultiple's loop     *)
(* with results[format] = the awaited value                                 *)
ExportReturn ==
    /\ call.pc = "x_return"
    /\ call' = IF IsFault(call.result) \/ ~call.multi
                THEN CallIdle
                ELSE [call EXCEPT
                        !.pc = "m_loop",
                        !.results = StoreResult(@, call.request.format,
                                                call.result.value),
                        !.idx = AfterIteration(@, call.formats, call.result.value),
                        !.log = Append(@, <<"end", call.request.format,
                                            call.request.outputPath>>)]
    /\ UNCHANGED <<exporters, lastReg, fs, now, pipe>>

-----------------------------------------------------------------------------
(* CSVExporter.export and JSONExporter.export: the same statements up to   *)
(* the content written.                                                     *)

FileExporters == {"CSVExporter", "JSONExporter"}

(* an export that creates the directory before it looks at processedData   *)
StepAfterCheckLate(step) ==
    CASE step = "x_invoke" -> "e_mkdir"
      [] step = "e_mkdir" -> "e_check"
      [] step = "e_check" -> "e_write"
      [] OTHER -> "x_await"

(* the statements of export in their order: processData, the check of      *)
(* processedData.length, the directory, the write, return                   *)
StepAfter(step) ==
    CASE step = "x_invoke" -> "e_check"
      [] step = "e_check" -> "e_mkdir"
      [] step = "e_mkdir" -> "e_write"
      [] OTHER -> "x_await"

(* CSVExporter: const headers = Object.keys(processedData[0]);             *)
(* const csvContent = this.convertToCSV(processedData, headers)            *)
CsvContent(processedData) ==
    <<convertToCSV(processedData, Keys(processedData[1]))>>

(* an envelope that counts the records export was given                     *)
ExportDataCountsInput(data, processedData, exportedAt) ==
    Rec(<<Prop("metadata",
               Rec(<<Prop("exportedAt", Str(exportedAt)),
                     Prop("recordCount", Num(ToString(Len(data.items)))),
                     Prop("version", Str("1.0.0"))>>)),
          Prop("data", List([i \in DOMAIN processedData |-> Rec(processedData[i])]))>>)

(* JSONExporter: const exportData = { metadata: { exportedAt, recordCount, *)
(* version }, data: processedData }                                         *)
ExportData(data, processedData, exportedAt) ==
    Rec(<<Prop("metadata",
               Rec(<<Prop("exportedAt", Str(exportedAt)),
                     Prop("recordCount", Num(ToString(Len(processedData)))),
                     Prop("version", Str("1.0.0"))>>)),
          Prop("data", List([i \in DOMAIN processedData |-> Rec(processedData[i])]))>>)

(* JSONExporter: JSON.stringify(exportData, null, 2)                        *)
JsonContent(data, processedData, clock) ==
    JSONstringify(ExportData(data, processedData, toISOString(clock)), "  ")

(* what the exporter hands to fs.writeFileSync                              *)
ContentOf(exporter, data, processedData, clock) ==
    IF exporter = "CSVExporter" THEN CsvContent(processedData)
    ELSE JsonContent(data, processedData, clock)

(* const processedData = this.processData(data, options)                    *)
EncoderProcess ==
    /\ call.pc = "x_invoke"
    /\ call.exporter \in FileExporters
    /\ LET out == processDataAt(call.heap, call.request.data, call.request.options)
       IN call' = [call EXCEPT
                     !.pc = StepAfter("x_invoke"),
                     !.heap = out.heap,
                     !.processedData = ItemsAt(out.heap, out.ref)]
    /\ UNCHANGED <<exporters, lastReg, fs, now, pipe>>

(* if (processedData.length === 0) return false                             *)
EncoderCheck ==
    /\ call.pc = "e_check"
    /\ call' = IF Len(call.processedData) = 0
                THEN [call EXCEPT !.pc = "x_await", !.completion = Return(FALSE)]
                ELSE [call EXCEPT !.pc = StepAfter("e_check")]
    /\ UNCHANGED <<exporters, lastReg, fs, now, pipe>>

(* if (!fs.existsSync(dir)) fs.mkdirSync(dir, { recursive: true })          *)
EncoderMkdir ==
    /\ call.pc = "e_mkdir"
    /\ LET dir == dirname(call.request.outputPath)
       IN IF existsSync(fs, dir)
          THEN /\ call' = [call EXCEPT !.pc = StepAfter("e_mkdir")]
               /\ fs' = fs
          ELSE IF MkdirThrows(fs, dir)
          THEN /\ call' = [call EXCEPT !.pc = "x_await", !.ioFault = TRUE,
                                       !.completion = EncoderCatch("EACCES")]
               /\ fs' = fs
          ELSE /\ call' = [call EXCEPT !.pc = StepAfter("e_mkdir")]
               /\ fs' = mkdirSync(fs, dir)
    /\ UNCHANGED <<exporters, lastReg, now, pipe>>

(* the content built from processedData; fs.writeFileSync(outputPath,      *)
(* content, 'utf8'); return true                                            *)
EncoderWrite ==
    /\ call.pc = "e_write"
    /\ IF WriteThrows(fs, call.request.outputPath)
       THEN /\ call' = [call EXCEPT !.pc = "x_await", !.ioFault = TRUE,
                                    !.completion = EncoderCatch("EACCES")]
            /\ fs' = fs
       ELSE /\ call' = [call EXCEPT !.pc = StepAfter("e_write"),
                                    !.completion = Return(TRUE)]
            /\ fs' = writeFileSync(fs, call.request.outputPath,
                                   ContentOf(call.exporter, call.request.data,
                                             call.processedData, now))
    /\ UNCHANGED <<exporters, lastReg, now, pipe>>

(* the document PDFExporter writes, its layout left open                    *)
PdfContent(processedData) == <<"%PDF">>

(* PDFExporter.export, by its contract: false for an empty transformed     *)
(* collection, the artifact written under its created directory, and an    *)
(* I/O fault either reported as false or raised.                            *)
PdfExport ==
    /\ call.pc = "x_invoke"
    /\ call.exporter = "PDFExporter"
    /\ LET out == processDataAt(call.heap, call.request.data, call.request.options)
           processedData == ItemsAt(out.heap, out.ref)
           dir == dirname(call.request.outputPath)
           made == IF existsSync(fs, dir) THEN fs ELSE mkdirSync(fs, dir)
           faulty == \/ ~existsSync(fs, dir) /\ MkdirThrows(fs, dir)
                     \/ WriteThrows(made, call.request.outputPath)
       IN IF Len(processedData) = 0
          THEN /\ call' = [call EXCEPT !.pc = "x_await", !.heap = out.heap,
                                       !.processedData = processedData,
                                       !.completion = Return(FALSE)]
               /\ fs' = fs
          ELSE IF faulty
          THEN /\ \E c \in {Return(FALSE), Throw} :
                     call' = [call EXCEPT !.pc = "x_await", !.ioFault = TRUE,
                                          !.heap = out.heap,
                                          !.processedData = processedData,
                                          !.completion = c]
               /\ fs' = fs
          ELSE /\ call' = [call EXCEPT !.pc = "x_await", !.heap = out.heap,
                                       !.processedData = processedData,
                                       !.completion = Return(TRUE)]
               /\ fs' = writeFileSync(made, call.request.outputPath,
                                      PdfContent(processedData))
    /\ UNCHANGED <<exporters, lastReg, now, pipe>>

(* a registered exporter whose export throws, or returns a promise that    *)
(* rejects                                                                  *)
FaultyExport ==
    /\ call.pc = "x_invoke"
    /\ call.exporter = "FaultyExporter"
    /\ \E c \in {Throw, Reject} :
          call' = [call EXCEPT !.pc = "x_await", !.completion = c]
    /\ UNCHANGED <<exporters, lastReg, fs, now, pipe>>

-----------------------------------------------------------------------------
(* The specifications.                                                      *)

Init ==
    /\ exporters = NewExporters
    /\ lastReg = [f \in Formats |->
                    CASE f = "csv" -> "CSVExporter"
                      [] f = "json" -> "JSONExporter"
                      [] f = "pdf" -> "PDFExporter"
                      [] OTHER -> "undefined"]
    /\ fs \in FsInputs
    /\ now = 0
    /\ call = CallIdle
    /\ pipe = PipeIdle

Next ==
    \/ RegisterExporter
    \/ CallExport
    \/ CallExportMultiple
    \/ MultiLoop
    \/ MultiReturn
    \/ ExportValidate
    \/ ExportLookup
    \/ ExportAwait
    \/ ExportReturn
    \/ EncoderProcess
    \/ EncoderCheck
    \/ EncoderMkdir
    \/ EncoderWrite
    \/ PdfExport
    \/ FaultyExport

Spec == Init /\ [][Next]_vars

InitPipeline ==
    /\ exporters = NewExporters
    /\ lastReg = [f \in Formats |-> MapGet(NewExporters, f)]
    /\ fs \in {Fs(Prefixes(TargetDir), {})}
    /\ now \in 0 .. MaxClock
    /\ call = CallIdle
    /\ pipe \in {PipeCalled(d, o) : d \in DataInputs, o \in OptionInputs}

NextPipeline ==
    \/ PdGuard
    \/ PdFilter
    \/ PdSelect
    \/ PdMetadata

SpecPipeline == InitPipeline /\ [][NextPipeline]_vars

(* One call of CSVExporter.export or JSONExporter.export, made directly:   *)
(* the records, the options, the file system and the clock are the call's. *)
Alice == <<Prop("id", Num("1")), Prop("name", Str("Alice"))>>
Bob == <<Prop("id", Num("2")), Prop("name", Str("Bob"))>>
Nested ==
    <<Prop("id", Num("3")), Prop("cfg", Obj("cfg")), Prop("tags", Arr("tags")),
      Prop("note", Str("say \"hi\"")), Prop("name", Null), Prop("ok", Bool("true")),
      Prop("deep", Obj("deep"))>>
Extra == <<Prop("name", Str("Eve")), Prop("extra", Num("7")), Prop("status", Str("active"))>>

EncoderRecords == {Alice, Bob, Nested, Extra}
EncoderData ==
    {ArrayOf(c) : c \in SeqsUpTo(EncoderRecords, MaxLen)} \cup {NullData}

EncoderOptions ==
    {NoOptions,
     Options(TRUE, <<Prop("status", Str("archived"))>>, FALSE, << >>, FALSE),
     Options(TRUE, <<Prop("id", Num("2"))>>, FALSE, << >>, TRUE),
     Options(FALSE, EmptyObj, TRUE, <<"name", "cfg", "missing">>, FALSE),
     Options(FALSE, EmptyObj, FALSE, << >>, TRUE)}

EncoderTargets == {OutputPathOf(b, f) : b \in BasePaths, f \in {"csv", "json"}}

(* a file system where the target is already there, with a text of its own *)
WithFiles(fsys, paths) ==
    [fsys EXCEPT !.files = paths, !.content = [p \in paths |-> <<"old">>]]

EncoderFsInputs ==
    FsInputs \cup {WithFiles(Fs(Prefixes(TargetDir), {}), EncoderTargets),
                   WithFiles(Fs(Prefixes(TargetDir), {TargetDir}), EncoderTargets)}

InitEncoder ==
    /\ exporters = NewExporters
    /\ lastReg = [f \in Formats |-> MapGet(NewExporters, f)]
    /\ fs \in EncoderFsInputs
    /\ now \in 0 .. MaxClock
    /\ pipe = PipeIdle
    /\ \E data \in EncoderData, options \in EncoderOptions,
          outputPath \in EncoderTargets, exporter \in FileExporters :
          call = [CallIdle EXCEPT
                     !.pc = "x_invoke",
                     !.request = [data |-> data, format |-> "csv",
                                  outputPath |-> outputPath, options |-> options],
                     !.exporter = exporter, !.heap = HeapOf(data), !.fs0 = fs]

NextEncoder ==
    \/ EncoderProcess
    \/ EncoderCheck
    \/ EncoderMkdir
    \/ EncoderWrite

SpecEncoder == InitEncoder /\ [][NextEncoder]_vars

-----------------------------------------------------------------------------
(* Properties of ExportManager, checked under Spec.                         *)

InExport == call.pc \in {"x_validate", "x_lookup", "x_invoke", "e_check",
                         "e_mkdir", "e_write", "x_await", "x_return"}

(* C1: ExportManager.export lets no fault escape: whenever it completes,   *)
(* it completes by returning a boolean, and that boolean is false when the *)
(* exporter's export threw or rejected.                                     *)
C1_NoFaultEscapes ==
    call.pc = "x_return" =>
        /\ call.result.kind = "return"
        /\ call.result.value \in BOOLEAN
        /\ (call.completion.kind \in {"throw", "reject"} => call.result.value = FALSE)

C1_Witness ==
    /\ call.pc = "x_return"
    /\ call.completion.kind = "reject"
    /\ call.result = Return(FALSE)

(* C2: with data that is null, not an array or empty, export returns false *)
(* with no exporter looked up or invoked, whatever the format and options, *)
(* and the file system is as it was when the call began.                    *)
InvalidInput(data) == data.kind # "array" \/ data.items = << >>

C2_InvalidInputShortCircuits ==
    (InExport /\ InvalidInput(call.request.data)) =>
        /\ call.pc \in {"x_validate", "x_return"}
        /\ call.exporter = "undefined"
        /\ call.completion = Pending
        /\ call.processedData = << >>
        /\ fs = call.fs0
        /\ (call.pc = "x_return" => call.result = Return(FALSE))

C2_Witness ==
    /\ call.pc = "x_return"
    /\ call.request.data = ArrayOf(<< >>)
    /\ call.request.format \in DOMAIN exporters
    /\ call.request.options # NoOptions
    /\ call.result = Return(FALSE)
    /\ fs.files = {}
    /\ TargetDir \notin fs.dirs

(* What one export call returns for a format, from the registry, the file  *)
(* system, the data, the target and the options it is given.               *)
CanWriteInto(fsys, dir) ==
    IF dir \in fsys.dirs THEN dir \notin fsys.readOnly
    ELSE \E a \in Prefixes(dir) \cap fsys.dirs :
            /\ \A b \in Prefixes(dir) \cap fsys.dirs : Len(b) <= Len(a)
            /\ a \notin fsys.readOnly

SingleExport(exp, fsys, data, format, target, options) ==
    /\ ~InvalidInput(data)
    /\ format \in DOMAIN exp
    /\ exp[format] \in {"CSVExporter", "JSONExporter", "PDFExporter"}
    /\ processData(data, options) # << >>
    /\ CanWriteInto(fsys, target.dir)

Kinds(formats) == {formats[i] : i \in DOMAIN formats}

(* C3: when exportMultiple returns, results has exactly the requested      *)
(* kinds as keys, and for each the boolean a single export of that kind to *)
(* basePath + '.' + kind returns; a kind that failed leaves the others     *)
(* attempted and reported.                                                  *)
C3_FanOutIndependent ==
    (call.pc = "m_return") =>
        /\ DOMAIN call.results = Kinds(call.formats)
        /\ \A k \in Kinds(call.formats) :
              call.results[k] =
                  SingleExport(exporters, call.fs0, call.data, k,
                               Path(call.basePath.dir, call.basePath.name \o "." \o k),
                               call.options)

C3_Witness ==
    /\ call.pc = "m_return"
    /\ call.formats = <<"xml", "csv">>
    /\ "xml" \notin DOMAIN exporters
    /\ call.results["xml"] = FALSE
    /\ call.results["csv"] = TRUE

(* C4: exportMultiple calls export once per position of formats, in the    *)
(* caller's order, each call begun after the one before it has ended, with *)
(* target basePath + '.' + kind, and the results keyed by kind.            *)
ExpectedLog(basePath, formats) ==
    [n \in 1 .. 2 * Len(formats) |->
        LET k == formats[(n + 1) \div 2]
        IN <<IF n % 2 = 1 THEN "begin" ELSE "end", k,
             Path(basePath.dir, basePath.name \o "." \o k)>>]

C4_SequentialInOrder ==
    call.multi =>
        LET expected == ExpectedLog(call.basePath, call.formats)
        IN /\ Len(call.log) <= Len(expected)
           /\ call.log = SubSeq(expected, 1, Len(call.log))
           /\ (call.pc = "m_loop" => Len(call.log) = 2 * (call.idx - 1))
           /\ (InExport => /\ Len(call.log) = 2 * call.idx - 1
                            /\ call.request.format = call.formats[call.idx]
                            /\ call.request.outputPath = expected[Len(call.log)][3])
           /\ (call.pc = "m_return" => call.log = expected)
           /\ DOMAIN call.results = {call.formats[i] : i \in 1 .. (Len(call.log) \div 2)}

C4_Witness ==
    /\ call.pc = "e_write"
    /\ call.multi
    /\ call.formats = <<"json", "csv">>
    /\ call.idx = 2
    /\ call.log = <<<<"begin", "json", Path(TargetDir, "out.json")>>,
                    <<"end", "json", Path(TargetDir, "out.json")>>,
                    <<"begin", "csv", Path(TargetDir, "out.csv")>>>>
    /\ DOMAIN call.results = {"json"}

(* C5: the exporter export dispatches to for a format is the one of the    *)
(* latest registerExporter call for that format, the constructor's three   *)
(* included; a format never registered has none, and a registration        *)
(* changes the exporter of no other format.                                 *)
C5_LastRegistrationWins ==
    /\ \A f \in Formats : MapGet(exporters, f) = lastReg[f]
    /\ (call.pc \in {"x_invoke", "e_check", "e_mkdir", "e_write", "x_await"}
            => call.exporter = lastReg[call.request.format])

C5_Witness ==
    /\ call.pc = "x_invoke"
    /\ call.request.format = "csv"
    /\ call.exporter = "JSONExporter"
    /\ lastReg["xml"] = "FaultyExporter"
    /\ MapGet(exporters, "json") = "JSONExporter"
    /\ MapGet(exporters, "pdf") = "PDFExporter"

(* C6, as claimed: from the CSV and JSON exporters a false return means    *)
(* only that the transformed collection was empty, and an fs fault leaves  *)
(* the exporter as a raised failure.                                        *)
C6_FalseOnlyWhenEmpty ==
    (call.pc = "x_await" /\ call.exporter \in {"CSVExporter", "JSONExporter"}) =>
        /\ (call.completion = Return(FALSE) => Len(call.processedData) = 0)
        /\ (call.ioFault => call.completion.kind \in {"throw", "reject"})

(* C6, amended: the CSV and JSON exporters never raise; they return false  *)
(* exactly when the transformed collection was empty or an fs call raised  *)
(* inside them, and true only with the target file written.                 *)
C6_FalseWhenEmptyOrFault ==
    (call.pc = "x_await" /\ call.exporter \in {"CSVExporter", "JSONExporter"}) =>
        /\ call.completion.kind = "return"
        /\ (call.completion.value = FALSE
                <=> (Len(call.processedData) = 0 \/ call.ioFault))
        /\ ~(Len(call.processedData) = 0 /\ call.ioFault)
        /\ (call.completion.value = TRUE => call.request.outputPath \in fs.files)

C6_Witness ==
    /\ call.pc = "x_await"
    /\ call.exporter = "CSVExporter"
    /\ call.ioFault
    /\ Len(call.processedData) > 0
    /\ call.completion = Return(FALSE)
    /\ call.request.outputPath \notin fs.files

-----------------------------------------------------------------------------
(* Properties of BaseExporter.processData, checked under SpecPipeline.     *)

Reserved == {"_exportedAt", "_exportVersion"}
Elems(q) == {q[i] : i \in DOMAIN q}

Filtering ==
    /\ pipe.stage \in {"filtered", "selected", "returned"}
    /\ IsArray(pipe.data)
    /\ pipe.options.present /\ pipe.options.hasFilter

(* the record has every field of F with exactly F's value                  *)
MatchesFilter(r, F) ==
    \A j \in DOMAIN F : \E i \in DOMAIN r : r[i].k = F[j].k /\ r[i].v = F[j].v

(* the n-th smallest element of a set of numbers                            *)
NthOf(idxs, n) == CHOOSE i \in idxs : Cardinality({x \in idxs : x <= i}) = n

(* C7: the filter step yields the records of C that have, at every field   *)
(* of F, exactly F's value, in C's order; a record lacking a field of F is *)
(* dropped; every output record r has r[f] = v and |output| <= |C|.        *)
C7_FilterIsExactSubsequence ==
    Filtering =>
        LET C == pipe.data.items
            F == pipe.options.filterOptions
            out == pipe.filtered
            kept == {i \in DOMAIN C : MatchesFilter(C[i], F)}
        IN /\ Len(out) = Cardinality(kept)
           /\ \A n \in DOMAIN out : out[n] = C[NthOf(kept, n)]
           /\ Len(out) <= Len(C)
           /\ \A n \in DOMAIN out : \A j \in DOMAIN F :
                 Has(out[n], F[j].k) /\ Get(out[n], F[j].k) = F[j].v

C7_Witness ==
    /\ Filtering
    /\ pipe.stage = "filtered"
    /\ pipe.options.filterOptions = <<Prop("status", Str("active")), Prop("id", Num("1"))>>
    /\ pipe.data.items = <<RecC, RecE>>
    /\ pipe.filtered = <<RecE>>

Selecting ==
    /\ pipe.stage = "returned"
    /\ IsArray(pipe.data)
    /\ pipe.options.present /\ pipe.options.hasFields
    /\ pipe.options.customFields # << >>

FirstPos(S, k) == CHOOSE j \in DOMAIN S : S[j] = k /\ \A m \in 1 .. (j - 1) : S[m] # k

InSelectionOrder(keys, S) ==
    \A a, b \in DOMAIN keys : a < b => FirstPos(S, keys[a]) < FirstPos(S, keys[b])

(* C8, as claimed: with a non-empty customFields S, whatever the filter    *)
(* and includeMetadata, every returned record has its fields among S, in   *)
(* S's order, and no field that its source record lacks.                    *)
C8_FieldsWithinSelection ==
    Selecting =>
        LET S == pipe.options.customFields
            out == pipe.processedData
        IN \A i \in DOMAIN out :
              /\ KeySet(out[i]) \subseteq Elems(S)
              /\ InSelectionOrder(Keys(out[i]), S)
              /\ \A k \in Elems(S) : ~Has(pipe.filtered[i], k) => ~Has(out[i], k)

(* own-key order of the selected fields: integer-index names ascending,    *)
(* then the other names by first occurrence in S                            *)
InOwnKeyOrder(keys, S) ==
    \A a, b \in DOMAIN keys : a < b =>
        \/ keys[a] \in IndexKeys /\ keys[b] \notin IndexKeys
        \/ /\ keys[a] \in IndexKeys /\ keys[b] \in IndexKeys
           /\ IndexNum(keys[a]) < IndexNum(keys[b])
        \/ /\ keys[a] \notin IndexKeys /\ keys[b] \notin IndexKeys
           /\ FirstPos(S, keys[a]) < FirstPos(S, keys[b])

(* C8, amended: every returned record has its fields among S and, when     *)
(* includeMetadata is set, the two reserved fields; the fields taken from  *)
(* the source record are those of S it has, with its values, in S's order  *)
(* except that integer-index names come first, ascending; the reserved     *)
(* fields not selected follow them; no absent field is filled in.          *)
C8_FieldsWithinSelectionAndMetadata ==
    Selecting =>
        LET S == pipe.options.customFields
            meta == pipe.options.includeMetadata
            out == pipe.processedData
        IN /\ Len(out) = Len(pipe.filtered)
           /\ \A i \in DOMAIN out :
                LET src == pipe.filtered[i]
                    taken == {k \in Elems(S) : \E n \in DOMAIN src : src[n].k = k}
                    added == IF meta THEN Reserved \ taken ELSE {}
                    keys == Keys(out[i])
                IN /\ KeySet(out[i]) \subseteq Elems(S) \cup (IF meta THEN Reserved ELSE {})
                   /\ KeySet(out[i]) = taken \cup added
                   /\ Len(keys) = Cardinality(taken \cup added)
                   /\ \A a \in DOMAIN keys : (keys[a] \in added) <=> a > Cardinality(taken)
                   /\ InOwnKeyOrder(SubSeq(keys, 1, Cardinality(taken)), S)
                   /\ \A k \in taken \ (IF meta THEN Reserved ELSE {}) :
                         Get(out[i], k) = Get(src, k)
                   /\ \A k \in Elems(S) \ added : ~Has(src, k) => ~Has(out[i], k)

C8_Witness ==
    /\ Selecting
    /\ pipe.options.customFields = <<"missing", "id", "missing">>
    /\ pipe.options.includeMetadata
    /\ pipe.data.items = <<RecA>>
    /\ Keys(pipe.processedData[1]) = <<"id", "_exportedAt", "_exportVersion">>

Unconfigured ==
    /\ pipe.stage = "returned"
    /\ IsArray(pipe.data)
    /\ \/ ~pipe.options.present
       \/ /\ ~pipe.options.hasFilter
          /\ ~pipe.options.hasFields
          /\ ~pipe.options.includeMetadata

(* C9: with options absent, or with filterOptions, customFields and        *)
(* includeMetadata all unset, processData returns a collection equal to    *)
(* its input: same length, same records, same order, fields and values.    *)
C9_IdentityWithoutOptions ==
    Unconfigured =>
        /\ Len(pipe.processedData) = Len(pipe.data.items)
        /\ \A i \in DOMAIN pipe.data.items : pipe.processedData[i] = pipe.data.items[i]

C9_Witness ==
    /\ Unconfigured
    /\ ~pipe.options.present
    /\ pipe.data.items = <<RecC, RecA>>
    /\ pipe.processedData = <<RecC, RecA>>

Annotating ==
    /\ pipe.stage = "returned"
    /\ IsArray(pipe.data)
    /\ pipe.options.present /\ pipe.options.includeMetadata

Timestamps == {Str(IsoText[n]) : n \in DOMAIN IsoText}

(* C10: with includeMetadata set, every returned record has _exportedAt,   *)
(* one timestamp for all records of the call, and _exportVersion "1.0.0",  *)
(* both replacing a field of that name, and every other field that came    *)
(* out of filter and projection with its value.                             *)
C10_MetadataStamped ==
    Annotating =>
        LET out == pipe.processedData
            before == pipe.selected
        IN /\ Len(out) = Len(before)
           /\ \E t \in Timestamps : \A i \in DOMAIN out : Get(out[i], "_exportedAt") = t
           /\ \A i \in DOMAIN out :
                /\ Get(out[i], "_exportVersion") = Str("1.0.0")
                /\ KeySet(out[i]) = KeySet(before[i]) \cup Reserved
                /\ Len(out[i]) = Cardinality(KeySet(out[i]))
                /\ \A k \in KeySet(before[i]) \ Reserved :
                      Get(out[i], k) = Get(before[i], k)

C10_Witness ==
    /\ Annotating
    /\ pipe.selected = <<RecE, RecA>>
    /\ Get(pipe.processedData[1], "_exportedAt") = Str("T1")
    /\ Get(pipe.processedData[2], "_exportedAt") = Str("T1")
    /\ Get(pipe.processedData[1], "status") = Str("active")

-----------------------------------------------------------------------------
(* Properties of one encoder call, checked under SpecEncoder.               *)

Succeeded(exporter) ==
    /\ call.exporter = exporter
    /\ call.pc = "x_await"
    /\ call.completion = Return(TRUE)

Artifact == fs.content[call.request.outputPath]

(* a text between quotes, each quote of its own written twice               *)
Quoted(chunks) ==
    Q \o Concat([i \in DOMAIN chunks |-> IF chunks[i] = Q THEN Q \o Q ELSE chunks[i]]) \o Q

ExpectedCell(record, field) ==
    LET value == Get(record, field)
    IN CASE ~Has(record, field) \/ value.t \in {"null", "undefined"} -> ""
         [] IsMapping(value) \/ IsSequence(value) -> Quoted(JSONstringify(value, ""))
         [] value.t = "string" -> Quoted(Chunks(value.s))
         [] OTHER -> value.s

ExpectedRows(T) ==
    LET H == Keys(T[1])
    IN <<JoinWith(H, ",")>>
       \o [i \in DOMAIN T |-> JoinWith([h \in DOMAIN H |-> ExpectedCell(T[i], H[h])], ",")]

(* C11: the text CSVExporter writes for a non-empty transformed collection *)
(* is, joined by newlines, a first row of the first record's field names   *)
(* in its own order, joined by commas and unquoted, then one row per       *)
(* record in order with exactly one cell per header field: empty for null  *)
(* or a missing field, the single-line JSON text with quotes doubled and   *)
(* wrapped in quotes for a nested mapping or sequence, the text with       *)
(* quotes doubled and wrapped in quotes for a string, the literal for any  *)
(* other scalar; a field only a later record has gets no column.           *)
C11_TabularLayout ==
    Succeeded("CSVExporter") =>
        LET T == call.processedData
        IN /\ Artifact = <<JoinWith(ExpectedRows(T), "\n")>>
           /\ Len(ExpectedRows(T)) = Len(T) + 1
           /\ (T = <<Alice, Bob>> =>
                  Artifact = <<"id,name\n1,\"Alice\"\n2,\"Bob\"">>)
           /\ (T = <<Nested>> =>
                  Artifact =
                    <<"id,cfg,tags,note,name,ok,deep\n"
                      \o "3,\"{\"\"a\"\":1,\"\"b\"\":\"\"x\"\"}\",\"[\"\"a\"\",2]\","
                      \o "\"say \"\"hi\"\"\",,true,"
                      \o "\"{\"\"q\"\":\"\"say \\\"\"hi\\\"\"\"\",\"\"t\"\":[\"\"a\"\",2]}\"">>)

C11_Witness ==
    /\ Succeeded("CSVExporter")
    /\ call.processedData = <<Nested, Extra>>
    /\ Artifact =
         <<"id,cfg,tags,note,name,ok,deep\n"
           \o "3,\"{\"\"a\"\":1,\"\"b\"\":\"\"x\"\"}\",\"[\"\"a\"\",2]\","
           \o "\"say \"\"hi\"\"\",,true,"
           \o "\"{\"\"q\"\":\"\"say \\\"\"hi\\\"\"\"\",\"\"t\"\":[\"\"a\"\",2]}\"\n"
           \o ",,,,\"Eve\",,">>

Envelope == JSONparse(Artifact)
Member(value, key) == Get(value.props, key)

(* C12: the artifact JSONExporter writes for a non-empty transformed        *)
(* collection T decodes to an envelope of metadata and data, in that       *)
(* order, whose metadata.recordCount is the number of records of T, not of *)
(* the collection export was given, and whose data is T: as many records,  *)
(* in the same order, each with the same fields in the same order and the  *)
(* same values.                                                             *)
C12_EnvelopeRoundTrip ==
    Succeeded("JSONExporter") =>
        LET T == call.processedData
            metadata == Member(Envelope, "metadata")
            data == Member(Envelope, "data")
        IN /\ Envelope.t = "record"
           /\ Keys(Envelope.props) = <<"metadata", "data">>
           /\ Keys(metadata.props) = <<"exportedAt", "recordCount", "version">>
           /\ Member(metadata, "recordCount") = Num(ToString(Len(T)))
           /\ Member(metadata, "exportedAt") = Str(toISOString(now))
           /\ Member(metadata, "version") = Str("1.0.0")
           /\ data.t = "list"
           /\ Len(data.elems) = Len(T)
           /\ \A i \in DOMAIN T :
                 /\ data.elems[i].t = "record"
                 /\ Keys(data.elems[i].props) = Keys(T[i])
                 /\ \A k \in KeySet(T[i]) :
                       Member(data.elems[i], k) = Deep(Get(T[i], k))

C12_Witness ==
    /\ Succeeded("JSONExporter")
    /\ call.request.data = ArrayOf(<<Nested, Bob>>)
    /\ call.request.options = Options(TRUE, <<Prop("id", Num("2"))>>, FALSE, << >>, TRUE)
    /\ Len(call.processedData) = 1
    /\ Member(Member(Envelope, "metadata"), "recordCount") = Num("1")
    /\ Member(Envelope, "data") =
         List(<<Rec(<<Prop("id", Num("2")), Prop("name", Str("Bob")),
                      Prop("_exportedAt", Str(toISOString(now))),
                      Prop("_exportVersion", Str("1.0.0"))>>)>>)

EmptyTransformed ==
    Len(processData(call.request.data, call.request.options)) = 0

TargetUntouched ==
    /\ fs.files = call.fs0.files
    /\ fs.content = call.fs0.content

C14_InOrder ==
    /\ (call.pc \in {"x_invoke", "e_check", "e_mkdir"} => fs = call.fs0)
    /\ (call.pc = "e_mkdir" => ~EmptyTransformed)
    /\ (call.pc = "e_write" =>
           /\ ~EmptyTransformed
           /\ dirname(call.request.outputPath) \in fs.dirs
           /\ TargetUntouched)
    /\ (call.pc = "x_await" /\ EmptyTransformed =>
           /\ call.completion = Return(FALSE)
           /\ fs = call.fs0)
    /\ (call.pc = "x_await" /\ call.completion = Return(TRUE) =>
           /\ ~EmptyTransformed
           /\ Prefixes(dirname(call.request.outputPath)) \subseteq fs.dirs
           /\ call.request.outputPath \in fs.files)

C14_StepByStep ==
    /\ (fs'.dirs # fs.dirs =>
           /\ call.pc = "e_mkdir"
           /\ Len(call.processedData) > 0
           /\ TargetUntouched')
    /\ (fs'.files # fs.files \/ fs'.content # fs.content =>
           /\ call.pc = "e_write"
           /\ Len(call.processedData) > 0
           /\ dirname(call.request.outputPath) \in fs.dirs
           /\ fs'.dirs = fs.dirs)

(* C14: an encoder's export transforms, then checks for emptiness, then    *)
(* creates the missing ancestor directories, then writes.  With an empty   *)
(* transformed collection it returns false and the file system is as it    *)
(* was: no directory created, the target neither written nor truncated.    *)
(* When it returns true the ancestor directories were there, created if    *)
(* they were missing, before the step that wrote the artifact.             *)
C14_TransformCheckMkdirWrite == []C14_InOrder /\ [][C14_StepByStep]_vars

C14_Witness ==
    /\ call.pc = "x_await"
    /\ call.request.data = ArrayOf(<<Extra, Alice>>)
    /\ call.request.options =
         Options(TRUE, <<Prop("status", Str("archived"))>>, FALSE, << >>, FALSE)
    /\ call.processedData = << >>
    /\ call.completion = Return(FALSE)
    /\ call.request.outputPath \in fs.files
    /\ Artifact = <<"old">>

-----------------------------------------------------------------------------
(* Properties of the caller's collection, checked under Spec.               *)

(* the array at DataRef and the records it holds are those of items, by    *)
(* position, field and value                                                *)
HoldsUnchanged(heap, items) ==
    /\ heap.arrs[DataRef] = [i \in DOMAIN items |-> i]
    /\ SubSeq(heap.objs, 1, Len(items)) = items
    /\ ItemsAt(heap, DataRef) = items

RawCollection == IF call.multi THEN call.data ELSE call.request.data

Transformed ==
    \/ call.pc \in {"e_check", "e_mkdir", "e_write"}
    \/ /\ call.pc = "x_await"
       /\ call.exporter \in FileExporters \cup {"PDFExporter"}

(* C13: processData leaves the collection it is given as it was, whatever  *)
(* the options: the same length, the same records in the same order, each  *)
(* with the same fields and values.  So during exportMultiple the request  *)
(* of every kind carries the raw collection, and what an encoder makes of  *)
(* it is the transformation of the raw collection, whatever was done for   *)
(* the kinds before it.                                                     *)
C13_InputLeftUnchanged ==
    /\ (pipe.stage # "idle" /\ IsArray(pipe.data) =>
           HoldsUnchanged(pipe.mem.heap, pipe.data.items))
    /\ (call.pc # "idle" /\ IsArray(RawCollection) =>
           HoldsUnchanged(call.heap, RawCollection.items))
    /\ (call.multi /\ InExport => call.request.data = call.data)
    /\ (Transformed =>
           call.processedData = processData(RawCollection, call.request.options))

C13_Witness ==
    /\ call.multi
    /\ call.formats = <<"json", "csv">>
    /\ call.idx = 2
    /\ call.pc = "e_check"
    /\ call.data = ArrayOf(<<RecA, RecB>>)
    /\ WantsFilter(call.options) /\ WantsFields(call.options) /\ WantsMetadata(call.options)
    /\ call.results = [k \in {"json"} |-> TRUE]
    /\ Len(call.heap.arrs) > 5
    /\ call.processedData =
         <<<<Prop("id", Num("1")), Prop("_exportedAt", Str(toISOString(now))),
             Prop("_exportVersion", ExportVersion)>>>>
    /\ ItemsAt(call.heap, DataRef) = <<RecA, RecB>>

====
